---- MODULE Spec2Model ----
(***************************************************************************)
(* Model of src/testebabifornt.py: the BABI news dashboard.                *)
(*                                                                         *)
(* The news table is the pandas DataFrame kept in                          *)
(* st.session_state['data'].  It is modelled as a sequence of rows, each   *)
(* row a function from the column names to cells.  A cell is a record:     *)
(*   [kind |-> "str", s |-> ...]  a Python str (a tuple of characters for  *)
(*                                the columns whose characters matter),    *)
(*   [kind |-> "nan"]             the missing value NaN,                   *)
(*   [kind |-> "ts", day |-> n]   a pandas Timestamp (day number n),       *)
(*   [kind |-> "nat"]             the missing timestamp NaT.               *)
(* gspread's get_all_records gives every row the same keys (the sheet's    *)
(* header) and gives a blank cell the value '' (empty string).  Cells that *)
(* gspread would convert to numbers are not modelled.                      *)
(***************************************************************************)
EXTENDS Integers, Sequences, FiniteSets, TLC

VARIABLES
    df,            \* rows of the DataFrame object held in session_state['data']
    columns,       \* df.columns
    data_dtype,    \* dtype of df['data']: "object" or "datetime64"
    df0,           \* the rows as load_news_data returned them
    columns0,      \* the columns as load_news_data returned them
    categorized,   \* analyze_categories has added 'categoria_principal' to this object
    last,          \* the last aggregation call: its name, what it returned, warnings
    has_data,      \* 'data' in st.session_state
    refresh_data,  \* st.session_state['refresh_data'] (absent counts as FALSE)
    api_key_state, \* st.session_state['OPENAI_API_KEY']
    has_chat,      \* 'chat_history' in st.session_state
    chat_history \* st.session_state['chat_history']

vars == <<df, columns, data_dtype, df0, columns0, categorized, last,
          has_data, refresh_data, api_key_state, has_chat, chat_history>>

chatVars  == <<has_data, refresh_data, api_key_state, has_chat, chat_history>>

----------------------------------------------------------------------------
(* Bounds of the model *)

MaxLen == 3        \* most records in a loaded table
MaxChat == 4       \* most messages kept in chat_history by the model
LoadLen == 1       \* most records of a table loaded by a run of main

----------------------------------------------------------------------------
(* Cells *)

S(x) == [kind |-> "str", s |-> x]
NaN == [kind |-> "nan"]
NaT == [kind |-> "nat"]
Ts(d) == [kind |-> "ts", day |-> d]

None == [tag |-> "None"]
Some(v) == [tag |-> "value", val |-> v]

----------------------------------------------------------------------------
(* Characters: str.lower and the regular expression class \w *)

Letters == {"a","b","c","d","e","h","i","l","m","n","o","r","s","t",
            "A","B","C","E","I","O"}
Digits == {"1","2","3"}

IsWordChar(c) == c \in Letters \cup Digits \cup {"_"}

LowerChar(c) ==
    CASE c = "A" -> "a" [] c = "B" -> "b" [] c = "C" -> "c"
      [] c = "E" -> "e" [] c = "I" -> "i" [] c = "O" -> "o"
      [] OTHER -> c

Lower(w) == [i \in 1..Len(w) |-> LowerChar(w[i])]

----------------------------------------------------------------------------
(* The sheets the data source can deliver *)

AllHeaders == {"data", "titulo", "fonte", "categoria_babi", "categoria_principal"}

TitleEconomia == <<"E","c","o","n","o","m","i","a"," ","e","m"," ","a","l","t","a">>
TitleCrise == <<"C","r","i","s","e",","," ","c","r","i","s","e">>
TitleBrasil == <<"O"," ","B","r","a","s","i","l"," ","e"," ","a"," ","e","c","o","n","o","m","i","a"," ","d","o"," ","B","r","a","s","i","l">>
TitleShort == <<"A"," ","c","r","i","s","e">>
Empty == << >>

SheetRow(d, t, f, c, p) ==
    [data |-> S(d), titulo |-> S(t), fonte |-> S(f),
     categoria_babi |-> S(c), categoria_principal |-> S(p)]

\* The records a sheet row is drawn from: every field is text, '' when blank.
RowEconomia == SheetRow("2024-02-01", TitleEconomia, "G1", <<"B","1">>, <<"B">>)
RowCrise == SheetRow("2024-02-01", TitleCrise, "CNN", <<"A","2">>, <<"A">>)
RowBrasil == SheetRow("2024-02-02", TitleBrasil, "G1", <<"b","1">>, <<"B">>)
RowBadDate == SheetRow("ontem", TitleShort, "CNN", <<"B","1">>, <<"I">>)
RowBlank == SheetRow("", Empty, "", Empty, Empty)
RowNoCode == SheetRow("2024-02-02", TitleShort, "", Empty, <<"I">>)

SheetRows == {RowEconomia, RowCrise, RowBrasil, RowBadDate, RowBlank, RowNoCode}

\* The headers a sheet can have: 'fonte' next to any of the other columns
SheetHeaders == { h \cup {"fonte"} : h \in SUBSET (AllHeaders \ {"fonte"}) }

\* pd.DataFrame(worksheet.get_all_records()): the columns are the keys of
\* the records, so a sheet without records gives a frame without columns.
DataFrame(records, header) ==
    [rows |-> [i \in 1..Len(records) |-> [h \in header |-> records[i][h]]],
     columns |-> IF Len(records) = 0 THEN {} ELSE header]

SeqsUpTo(set, n) == UNION { [1..k -> set] : k \in 0..n }

----------------------------------------------------------------------------
(* pandas *)

\* df[c]
Column(rows, c) == [i \in 1..Len(rows) |-> rows[i][c]]

\* df[c] = series
SetColumn(rows, c, series) ==
    [i \in 1..Len(rows) |->
        [h \in (DOMAIN rows[i]) \cup {c} |-> IF h = c THEN series[i] ELSE rows[i][h]]]

\* the slice .str[:1] in place of .str[0]: '' stays ''
StrGet0Slice(cell) ==
    IF cell.kind /= "str" THEN NaN
    ELSE IF Len(cell.s) = 0 THEN S(<< >>) ELSE S(<<cell.s[1]>>)

\* Series.str[0]: the first character; NaN for '' and for a missing value
StrGet0(cell) ==
    IF cell.kind = "str" /\ Len(cell.s) > 0 THEN S(<<cell.s[1]>>) ELSE NaN

IsNA(cell) == cell.kind \in {"nan", "nat"}

\* Series.value_counts(): missing values are dropped, '' is a value
ValueCounts(series) ==
    LET keys == { series[i] : i \in { j \in DOMAIN series : ~IsNA(series[j]) } }
    IN  [k \in keys |-> Cardinality({ i \in DOMAIN series : series[i] = k })]

\* pd.to_datetime on one element: '' is NaT, a date is a Timestamp,
\* anything else raises
\* errors='coerce': nothing raises
ParsableCoerce(cell) == TRUE

Parsable(cell) == cell.kind /= "str" \/ cell.s \in {"", "2024-02-01", "2024-02-02"}

ToDatetime(cell) ==
    IF cell.kind /= "str" THEN cell
    ELSE CASE cell.s = "2024-02-01" -> Ts(1)
           [] cell.s = "2024-02-02" -> Ts(2)
           [] OTHER -> NaT

\* df.groupby([pd.Grouper(key='data', freq='D'), 'categoria_principal']).size():
\* one entry per observed (day, category); rows with NaT or NaN keys are dropped
GroupSize(rows) ==
    LET ok == { i \in 1..Len(rows) :
                  rows[i]["data"].kind = "ts" /\ ~IsNA(rows[i]["categoria_principal"]) }
        key(i) == <<rows[i]["data"].day, rows[i]["categoria_principal"]>>
    IN  [k \in { key(i) : i \in ok } |-> Cardinality({ i \in ok : key(i) = k })]

----------------------------------------------------------------------------
(* Text: the pieces of create_wordcloud *)

\* Series.astype(str) on one element
AsTypeStr(cell) == IF cell.kind = "str" THEN cell.s ELSE <<"n","a","n">>

\* sep.join(strings)
RECURSIVE Join(_, _)
Join(strings, sep) ==
    IF Len(strings) = 0 THEN << >>
    ELSE IF Len(strings) = 1 THEN strings[1]
    ELSE strings[1] \o sep \o Join(Tail(strings), sep)

\* re.findall(r'\b\w+\b', text): the maximal runs of word characters,
\* in the order of the text
FindAll(text) ==
    LET n == Len(text)
        starts == { i \in 1..n : IsWordChar(text[i]) /\ (i = 1 \/ ~IsWordChar(text[i - 1])) }
        ends == { i \in 1..n : IsWordChar(text[i]) /\ (i = n \/ ~IsWordChar(text[i + 1])) }
        start(k) == CHOOSE i \in starts : Cardinality({ j \in starts : j < i }) = k - 1
        end(k) == CHOOSE i \in ends : Cardinality({ j \in ends : j < i }) = k - 1
    IN  [k \in 1..Cardinality(starts) |-> SubSeq(text, start(k), end(k))]

\* set(stopwords.words('portuguese')), the part of it the modelled titles meet
stop_words == { <<"a">>, <<"o">>, <<"e">>, <<"d","o">>, <<"d","a">>, <<"d","e">>, <<"e","m">> }

\* the stop-word test without lower()
KeepWordCaseSensitive(word) == word \notin stop_words

\* [word.lower() for word in re.findall(...) if word.lower() not in stop_words]
KeepWord(word) == Lower(word) \notin stop_words

FilterWords(found) ==
    LET kept == SelectSeq(found, KeepWord)
    IN  [i \in 1..Len(kept) |-> Lower(kept[i])]

TokenWords(rows, column) ==
    LET texts == [i \in 1..Len(rows) |-> AsTypeStr(rows[i][column])]
        all_text == Join(texts, <<" ">>)
    IN  FilterWords(FindAll(all_text))

----------------------------------------------------------------------------
(* The aggregation functions.  Each gives the frame as the call leaves it *)
(* and what the call returns.                                             *)

\* analyze_categories that also rewrites 'categoria_babi' in lower case
analyze_categories_normalizing(rows, cols) ==
    IF "categoria_babi" \in cols
    THEN LET principal == [i \in 1..Len(rows) |-> StrGet0(rows[i]["categoria_babi"])]
             lowered == [i \in 1..Len(rows) |-> S(Lower(rows[i]["categoria_babi"].s))]
             rows2 == SetColumn(SetColumn(rows, "categoria_babi", lowered),
                                "categoria_principal", principal)
         IN  [rows |-> rows2,
              columns |-> cols \cup {"categoria_principal"},
              result |-> Some([categoria_counts |->
                                  ValueCounts(Column(rows2, "categoria_principal")),
                               subcategoria_counts |->
                                  ValueCounts(Column(rows2, "categoria_babi"))])]
    ELSE [rows |-> rows, columns |-> cols, result |-> None]

analyze_categories(rows, cols) ==
    IF "categoria_babi" \in cols
    THEN LET principal == [i \in 1..Len(rows) |-> StrGet0(rows[i]["categoria_babi"])]
             rows2 == SetColumn(rows, "categoria_principal", principal)
         IN  [rows |-> rows2,
              columns |-> cols \cup {"categoria_principal"},
              result |-> Some([categoria_counts |->
                                  ValueCounts(Column(rows2, "categoria_principal")),
                               subcategoria_counts |->
                                  ValueCounts(Column(rows2, "categoria_babi"))])]
    ELSE [rows |-> rows, columns |-> cols, result |-> None]

analyze_sources(rows, cols) ==
    IF "fonte" \in cols
    THEN Some(ValueCounts(Column(rows, "fonte")))
    ELSE None

\* analyze_time_trends that counts per day alone when the table has no
\* 'categoria_principal' column
analyze_time_trends_by_day(rows, cols, dtype, allNaTRaises) ==
    IF "data" \in cols
    THEN LET convert == dtype /= "datetime64"
             raisesParse == convert /\ \E i \in 1..Len(rows) : ~Parsable(rows[i]["data"])
             rows2 == IF convert /\ ~raisesParse
                      THEN SetColumn(rows, "data",
                                     [i \in 1..Len(rows) |-> ToDatetime(rows[i]["data"])])
                      ELSE rows
             dtype2 == IF convert /\ ~raisesParse THEN "datetime64" ELSE dtype
             noDate == \A i \in 1..Len(rows2) : rows2[i]["data"].kind /= "ts"
             days == { rows2[i]["data"].day : i \in { j \in 1..Len(rows2) : rows2[j]["data"].kind = "ts" } }
             perDay == [d \in days |-> Cardinality({ i \in 1..Len(rows2) : rows2[i]["data"] = Ts(d) })]
         IN  IF raisesParse \/ (noDate /\ allNaTRaises)
             THEN [rows |-> rows2, dtype |-> dtype2, result |-> None, warned |-> TRUE]
             ELSE [rows |-> rows2, dtype |-> dtype2,
                   result |-> Some(IF "categoria_principal" \in cols
                                   THEN GroupSize(rows2) ELSE perDay),
                   warned |-> FALSE]
    ELSE [rows |-> rows, dtype |-> dtype, result |-> None, warned |-> FALSE]

\* allNaTRaises: whether the day Grouper raises when no row has a date
\* (pandas decides; both outcomes are kept)
analyze_time_trends(rows, cols, dtype, allNaTRaises) ==
    IF "data" \in cols
    THEN LET convert == dtype /= "datetime64"
             raisesParse == convert /\ \E i \in 1..Len(rows) : ~Parsable(rows[i]["data"])
             rows2 == IF convert /\ ~raisesParse
                      THEN SetColumn(rows, "data",
                                     [i \in 1..Len(rows) |-> ToDatetime(rows[i]["data"])])
                      ELSE rows
             dtype2 == IF convert /\ ~raisesParse THEN "datetime64" ELSE dtype
             noDate == \A i \in 1..Len(rows2) : rows2[i]["data"].kind /= "ts"
             raisesGroup == "categoria_principal" \notin cols \/ (noDate /\ allNaTRaises)
         IN  IF raisesParse \/ raisesGroup
             THEN [rows |-> rows2, dtype |-> dtype2, result |-> None, warned |-> TRUE]
             ELSE [rows |-> rows2, dtype |-> dtype2,
                   result |-> Some(GroupSize(rows2)), warned |-> FALSE]
    ELSE [rows |-> rows, dtype |-> dtype, result |-> None, warned |-> FALSE]

\* WordCloud(...).generate(text) raises ValueError when the text has no word
create_wordcloud(rows, cols, column) ==
    IF column \in cols
    THEN LET words == TokenWords(rows, column)
         IN  IF Len(words) = 0
             THEN [result |-> None, warned |-> TRUE, words |-> words]
             ELSE [result |-> Some("WordCloud"), warned |-> FALSE, words |-> words]
    ELSE [result |-> None, warned |-> FALSE, words |-> << >>]

----------------------------------------------------------------------------
(* The aggregation functions called, in any order, on one loaded table *)

NoCall == [op |-> "none", result |-> None, warned |-> FALSE, words |-> << >>]

InitChat ==
    /\ has_data = FALSE
    /\ refresh_data = FALSE
    /\ api_key_state = ""
    /\ has_chat = FALSE
    /\ chat_history = << >>

Init ==
    /\ \E records \in SeqsUpTo(SheetRows, MaxLen), header \in SheetHeaders :
          LET t == DataFrame(records, header)
          IN  /\ df = t.rows
              /\ columns = t.columns
              /\ df0 = t.rows
              /\ columns0 = t.columns
    /\ data_dtype = "object"
    /\ categorized = FALSE
    /\ last = NoCall
    /\ InitChat

CallAnalyzeCategories ==
    LET r == analyze_categories(df, columns)
    IN  /\ df' = r.rows
        /\ columns' = r.columns
        /\ categorized' = (categorized \/ "categoria_babi" \in columns)
        /\ last' = [op |-> "analyze_categories", result |-> r.result,
                    warned |-> FALSE, words |-> << >>]
        /\ UNCHANGED <<data_dtype, df0, columns0, chatVars>>

CallAnalyzeSources ==
    /\ last' = [op |-> "analyze_sources", result |-> analyze_sources(df, columns),
                warned |-> FALSE, words |-> << >>]
    /\ UNCHANGED <<df, columns, data_dtype, df0, columns0, categorized, chatVars>>

CallAnalyzeTimeTrends ==
    \E allNaTRaises \in BOOLEAN :
        LET r == analyze_time_trends(df, columns, data_dtype, allNaTRaises)
        IN  /\ df' = r.rows
            /\ data_dtype' = r.dtype
            /\ last' = [op |-> "analyze_time_trends", result |-> r.result,
                        warned |-> r.warned, words |-> << >>]
            /\ UNCHANGED <<columns, df0, columns0, categorized, chatVars>>

CallCreateWordcloud ==
    LET r == create_wordcloud(df, columns, "titulo")
    IN  /\ last' = [op |-> "create_wordcloud", result |-> r.result,
                    warned |-> r.warned, words |-> r.words]
        /\ UNCHANGED <<df, columns, data_dtype, df0, columns0, categorized, chatVars>>

Next ==
    \/ CallAnalyzeCategories
    \/ CallAnalyzeSources
    \/ CallAnalyzeTimeTrends
    \/ CallCreateWordcloud

Spec == Init /\ [][Next]_vars

----------------------------------------------------------------------------
(* Helpers of the properties *)

RECURSIVE SumCounts(_)
SumCounts(f) ==
    IF DOMAIN f = {} THEN 0
    ELSE LET k == CHOOSE x \in DOMAIN f : TRUE
         IN  f[k] + SumCounts([x \in (DOMAIN f) \ {k} |-> f[x]])

UpperChar(c) ==
    CASE c = "a" -> "A" [] c = "b" -> "B" [] c = "c" -> "C"
      [] c = "e" -> "E" [] c = "i" -> "I" [] c = "o" -> "O"
      [] OTHER -> c

Occurrences(seq, x) == Cardinality({ i \in 1..Len(seq) : seq[i] = x })

CategoriesReturned == last.op = "analyze_categories" /\ last.result /= None
CategoriaCounts == last.result.val.categoria_counts
SubcategoriaCounts == last.result.val.subcategoria_counts
HasCode(row) == row["categoria_babi"].s /= << >>
NumWithCode == Cardinality({ i \in 1..Len(df) : HasCode(df[i]) })

----------------------------------------------------------------------------
(* C1: the facet counts of analyze_categories sum to at most the number   *)
(* of records, and to exactly that number if and only if every record has *)
(* a non-empty classification code.                                        *)
C1_FacetSum ==
    CategoriesReturned =>
        /\ SumCounts(CategoriaCounts) <= Len(df)
        /\ (SumCounts(CategoriaCounts) = Len(df)) <=> (NumWithCode = Len(df))

\* three records, one of them without a code: the sum is 2
C1_Witness ==
    /\ CategoriesReturned
    /\ Len(df) = 3
    /\ NumWithCode = 2
    /\ SumCounts(CategoriaCounts) = 2

(* C2: a record whose classification code is empty produces no key of the *)
(* facet counts and no key of the subcategory counts.                      *)
C2_EmptyCodeExcluded ==
    CategoriesReturned =>
        \A i \in 1..Len(df) :
            ~HasCode(df[i]) =>
                /\ df[i]["categoria_principal"] \notin DOMAIN CategoriaCounts
                /\ df[i]["categoria_babi"] \notin DOMAIN SubcategoriaCounts

(* C3: every key of the subcategory counts has a first character that is  *)
(* a key of the facet counts, and that facet's count is at least the       *)
(* subcategory's count.                                                    *)
C3_SubcategoryRefinesFacet ==
    CategoriesReturned =>
        \A k \in DOMAIN SubcategoriaCounts :
            /\ Len(k.s) > 0
            /\ S(<<k.s[1]>>) \in DOMAIN CategoriaCounts
            /\ CategoriaCounts[S(<<k.s[1]>>)] >= SubcategoriaCounts[k]

(* C8: the facet of a record is the first character of its code converted *)
(* to upper case, and is absent for an empty code.                         *)
C8_FacetUpperCased ==
    CategoriesReturned =>
        \A i \in 1..Len(df) :
            df[i]["categoria_principal"] =
                IF HasCode(df[i])
                THEN S(<<UpperChar(df[i]["categoria_babi"].s[1])>>)
                ELSE NaN

----------------------------------------------------------------------------
TrendCalled == last.op = "analyze_time_trends"

\* the dates as loaded
IsDay(cell) == cell.s \in {"2024-02-01", "2024-02-02"}
IsMalformed(cell) == cell.s /= "" /\ ~IsDay(cell)
DayOf(cell) == IF cell.s = "2024-02-01" THEN Ts(1) ELSE Ts(2)
SomeDateParsesToDay == \E i \in 1..Len(df0) : IsDay(df0[i]["data"])
SomeDateUnparsable == \E i \in 1..Len(df0) : IsMalformed(df0[i]["data"])
SomeDateBlank == \E i \in 1..Len(df0) : df0[i]["data"].s = ""

\* the series of the records whose loaded date parses, with the table's
\* current categories
TrendOfParsable ==
    GroupSize([i \in 1..Len(df) |->
                 [h \in {"data", "categoria_principal"} |->
                     IF h = "categoria_principal" THEN df[i][h]
                     ELSE IF IsDay(df0[i]["data"]) THEN DayOf(df0[i]["data"])
                     ELSE NaT]])

TrendPrecondition ==
    /\ TrendCalled
    /\ "data" \in columns
    /\ "categoria_principal" \in columns
    /\ SomeDateParsesToDay

----------------------------------------------------------------------------
OtherCellsKept(skip) ==
    /\ Len(df') = Len(df)
    /\ \A i \in 1..Len(df) : \A h \in columns \ {skip} : df'[i][h] = df[i][h]

C5_FrameStep ==
    /\ last'.op \in {"analyze_sources", "create_wordcloud"} =>
            df' = df /\ columns' = columns
    /\ last'.op = "analyze_categories" =>
            /\ columns' \in {columns, columns \cup {"categoria_principal"}}
            /\ OtherCellsKept("categoria_principal")
    /\ last'.op = "analyze_time_trends" =>
            /\ columns' = columns
            /\ OtherCellsKept("data")
            /\ \A i \in 1..Len(df) :
                  "data" \in columns =>
                      df'[i]["data"] \in {df[i]["data"], ToDatetime(df[i]["data"])}

----------------------------------------------------------------------------
(* C6: on a table without records every aggregate is an empty mapping or  *)
(* sequence, never the absent value.                                       *)
C6_EmptyTableEmptyAggregates ==
    (Len(df0) = 0 /\ last.op /= "none") => last.result /= None

----------------------------------------------------------------------------
Brasil == <<"b","r","a","s","i","l">>
Economia == <<"e","c","o","n","o","m","i","a">>
HasTitle(row) == row["titulo"].s /= << >>

(* C7: the words built by create_wordcloud are lower-cased, are not       *)
(* stop-words and are not empty; a record with a blank title contributes  *)
(* no word; the title "O Brasil e a economia do Brasil" gives brasil       *)
(* twice and economia once.                                                *)
C7_Tokens ==
    (last.op = "create_wordcloud" /\ "titulo" \in columns) =>
        /\ \A i \in 1..Len(last.words) :
              /\ last.words[i] = Lower(last.words[i])
              /\ last.words[i] \notin stop_words
              /\ Len(last.words[i]) > 0
              /\ \A j \in 1..Len(last.words[i]) : IsWordChar(last.words[i][j])
        /\ last.words = TokenWords(SelectSeq(df, HasTitle), "titulo")
        /\ (\A i \in 1..Len(df) : ~HasTitle(df[i])) => last.words = << >>
        /\ (Len(df) = 1 /\ df[1]["titulo"].s = TitleBrasil) =>
              /\ Len(last.words) = 3
              /\ Occurrences(last.words, Brasil) = 2
              /\ Occurrences(last.words, Economia) = 1

\* the example title next to a blank title
C7_Witness ==
    /\ last.op = "create_wordcloud"
    /\ "titulo" \in columns
    /\ Len(df) = 2
    /\ df[1]["titulo"].s = TitleBrasil
    /\ ~HasTitle(df[2])
    /\ Occurrences(last.words, Brasil) = 2

----------------------------------------------------------------------------
(* C9 as stated: on a table with a 'data' column analyze_time_trends       *)
(* returns a series only if analyze_categories was applied before to the   *)
(* same table having a 'categoria_babi' column; otherwise it returns None. *)
C9_TrendNeedsCategories ==
    (TrendCalled /\ "data" \in columns) => (last.result /= None => categorized)

(* C9 amended: the same, for a table whose sheet has no column named      *)
(* 'categoria_principal' of its own.                                       *)
C9_TrendNeedsCategoriesUnlessLoaded ==
    (TrendCalled /\ "data" \in columns /\ "categoria_principal" \notin columns0) =>
        /\ last.result /= None => categorized
        /\ ~categorized => (last.result = None /\ last.warned)

\* the series is returned after analyze_categories added the column
C9_Witness ==
    /\ TrendCalled
    /\ "data" \in columns
    /\ "categoria_principal" \notin columns0
    /\ categorized
    /\ last.result /= None
    /\ DOMAIN last.result.val /= {}

----------------------------------------------------------------------------
(* main: one run of the script, from the sidebar to the chat tab *)

ConfigureKeyMessage == "Por favor, configure sua chave de API nas configuracoes."
ApiErrorMessage == "Erro ao comunicar com a API"
ApiContent == "response.choices[0].message.content"

\* get_ai_response without the except clause: an API error propagates
get_ai_response_uncaught(prompt, context, api_key, api_ok) ==
    IF api_key = "" THEN [raised |-> FALSE, text |-> ConfigureKeyMessage]
    ELSE IF api_ok THEN [raised |-> FALSE, text |-> ApiContent]
    ELSE [raised |-> TRUE, text |-> ApiErrorMessage]

\* api_ok: whether openai.ChatCompletion.create answers or raises
get_ai_response(prompt, context, api_key, api_ok) ==
    IF api_key = "" THEN [raised |-> FALSE, text |-> ConfigureKeyMessage]
    ELSE IF api_ok THEN [raised |-> FALSE, text |-> ApiContent]
    ELSE [raised |-> FALSE, text |-> ApiErrorMessage]

Message(role, content) == [role |-> role, content |-> content]

InitMain ==
    /\ df = << >>
    /\ columns = {}
    /\ df0 = << >>
    /\ columns0 = {}
    /\ data_dtype = "object"
    /\ categorized = FALSE
    /\ last = NoCall
    /\ InitChat

\* clicked: the button "Carregar Dados"; key_input: the API key field;
\* sheet: what load_news_data returns if it is called; user_input: the
\* question field
main(clicked, key_input, sheet, user_input, api_ok, allNaTRaises) ==
    LET refresh1 == refresh_data \/ clicked
        key1 == IF key_input /= "" THEN key_input ELSE api_key_state
        reload == ~has_data \/ refresh1
        rows0 == IF reload THEN sheet.rows ELSE df
        cols0 == IF reload THEN sheet.columns ELSE columns
        dtype0 == IF reload THEN "object" ELSE data_dtype
        cat == analyze_categories(rows0, cols0)
        source_counts == analyze_sources(cat.rows, cat.columns)
        trend == analyze_time_trends(cat.rows, cat.columns, dtype0, allNaTRaises)
        cloud == create_wordcloud(trend.rows, cat.columns, "titulo")
        history0 == IF has_chat THEN chat_history ELSE << >>
        context == Len(trend.rows)
        ai_response == get_ai_response(user_input, context, key1, api_ok)
        history1 == IF user_input = "" THEN history0
                    ELSE IF ai_response.raised
                         THEN Append(history0, Message("user", user_input))
                         ELSE history0 \o <<Message("user", user_input),
                                            Message("assistant", ai_response.text)>>
    IN  /\ user_input /= "" => Len(history0) + 2 <= MaxChat
        /\ api_key_state' = key1
        /\ has_data' = TRUE
        /\ refresh_data' = (IF reload THEN FALSE ELSE refresh1)
        /\ df' = trend.rows
        /\ columns' = cat.columns
        /\ data_dtype' = trend.dtype
        /\ df0' = (IF reload THEN sheet.rows ELSE df0)
        /\ columns0' = (IF reload THEN sheet.columns ELSE columns0)
        /\ categorized' = ((~reload /\ categorized) \/ "categoria_babi" \in cols0)
        /\ last' = [op |-> "create_wordcloud", result |-> cloud.result,
                    warned |-> cloud.warned, words |-> cloud.words]
        /\ has_chat' = TRUE
        /\ chat_history' = history1

MainRows == {RowBadDate, RowNoCode}

Sheets ==
    { DataFrame(records, AllHeaders \ {"categoria_principal"}) :
        records \in SeqsUpTo(MainRows, LoadLen) }

MainRun ==
    \E clicked \in BOOLEAN, key_input \in {"", "sk-key"}, sheet \in Sheets,
       user_input \in {"", "pergunta", "outra pergunta"}, api_ok \in BOOLEAN, allNaTRaises \in BOOLEAN :
        main(clicked, key_input, sheet, user_input, api_ok, allNaTRaises)

NextMain == MainRun

SpecMain == InitMain /\ [][NextMain]_vars

----------------------------------------------------------------------------
IsPrefix(s, t) == Len(s) <= Len(t) /\ SubSeq(t, 1, Len(s)) = s

Alternates(h) ==
    /\ Len(h) % 2 = 0
    /\ \A i \in 1..Len(h) :
          h[i].role = (IF i % 2 = 1 THEN "user" ELSE "assistant")

ChatStep ==
    /\ IsPrefix(chat_history, chat_history')
    /\ Len(chat_history') \in {Len(chat_history), Len(chat_history) + 2}
    /\ Alternates(chat_history')

====
